---- MODULE Spec2Model ----
(***************************************************************************)
(* Path-finding game: the random path generator (generatePath and its      *)
(* helpers) and the game session (startGame, handleKeyDown, updateGame,    *)
(* checkWinCondition, flashErrorEffect and the React effects around them). *)
(*                                                                         *)
(* Two variants of the component exist in the repository:                  *)
(*   "base"     src/unnamed/part_000        (free-roam, no recovery rule)  *)
(*   "recovery" src/path-finding-game.tsx   (deviation-limited generator,  *)
(*                                           off-path recovery rule)       *)
(*                                                                         *)
(* Cells are <<x, y>> (column, row); row 0 is the top row.  A path is a    *)
(* sequence of cells; TLA+ sequences are 1-based, so the source's path[0]  *)
(* is path[1] here and path[path.length - 1] is path[Len(path)].           *)
(***************************************************************************)
EXTENDS Integers, Sequences, FiniteSets, TLC

\* ------------------------------------------------------------------ bounds
\* GRID_SIZE is 35 in the source; the session is explored on a smaller grid.
GRID_SIZE == 3
\* MAX_HORIZONTAL_DEVIATION is 4 in the source (band of 9 columns out of 35).
MAX_HORIZONTAL_DEVIATION == 1
\* TIME_LIMIT is 12 (seconds) in the source; the clock here counts coarse quanta.
TIME_LIMIT == 1
\* The clock (Date.now()) is explored up to this value.
MaxNow == 1
\* Largest grid side and deviation the generator is run with on its own.
MaxGenSize == 4
MaxGenDev == 2
\* At most this many delayed win commits (setTimeout 50) are outstanding at once.
MaxWinTimers == 1
\* At most this many zero-delay checkWinCondition callbacks that will schedule a
\* win commit are outstanding at once.
MaxCheckTimers == 1

\* --------------------------------------------------------- program constants
MISTAKES_ALLOWED == 3

Variants == {"base", "recovery"}

\* ================================================================ generator

Abs(n) == IF n < 0 THEN 0 - n ELSE n

\* Math.floor(GRID_SIZE / 2)
startXOf(size) == size \div 2

\* path.some(([px, py]) => px === x && py === y)
hasPoint(p, x, y) == \E i \in 1..Len(p) : p[i][1] = x /\ p[i][2] = y

isValidMove_NoVisitedCheck(size, p, x, y) ==
    x >= 0 /\ x < size /\ y >= 0 /\ y < size

isValidMove(size, p, x, y) ==
    x >= 0 /\ x < size /\ y >= 0 /\ y < size /\ ~hasPoint(p, x, y)

formsSquare_Never(p, x, y) == FALSE

formsSquare_UpperOnly(p, x, y) ==
    \/ (hasPoint(p, x - 1, y) /\ hasPoint(p, x, y - 1) /\ hasPoint(p, x - 1, y - 1))
    \/ (hasPoint(p, x + 1, y) /\ hasPoint(p, x, y - 1) /\ hasPoint(p, x + 1, y - 1))

formsSquare(p, x, y) ==
    \/ (hasPoint(p, x - 1, y) /\ hasPoint(p, x, y - 1) /\ hasPoint(p, x - 1, y - 1))
    \/ (hasPoint(p, x + 1, y) /\ hasPoint(p, x, y - 1) /\ hasPoint(p, x + 1, y - 1))
    \/ (hasPoint(p, x - 1, y) /\ hasPoint(p, x, y + 1) /\ hasPoint(p, x - 1, y + 1))
    \/ (hasPoint(p, x + 1, y) /\ hasPoint(p, x, y + 1) /\ hasPoint(p, x + 1, y + 1))

directions_DownForRight == << <<0, -1>>, <<-1, 0>>, <<0, 1>> >>

\* The candidate moves, in the order the source lists them: up, left, right.
directions == << <<0, -1>>, <<-1, 0>>, <<1, 0>> >>

\* [array[i], array[j]] = [array[j], array[i]]   (1-based here)
Swap(array, i, j) == [array EXCEPT ![i] = array[j], ![j] = array[i]]

\* The outcomes of Math.floor(Math.random() * (i + 1)) for i = n-1 .. 1:
\* js[i] is the index j drawn at loop index i, 0 <= j <= i.
RandomPicks(n) == { js \in [1..(n - 1) -> 0..(n - 1)] : \A i \in 1..(n - 1) : js[i] <= i }

RECURSIVE shuffleLoop(_, _, _)
shuffleLoop(array, i, js) ==
    IF i > 0 THEN shuffleLoop(Swap(array, i + 1, js[i] + 1), i - 1, js) ELSE array

\* Fisher-Yates, for i = length-1 down to 1.
shuffleArray(array, js) == shuffleLoop(array, Len(array) - 1, js)

\* The test of the for-loop over the shuffled candidates.
\* limited = the deviation-limited generator of the recovery variant.
qualifies_NoDeviationCheck(size, limited, dev, p, nx, ny) ==
    isValidMove(size, p, nx, ny) /\ ~formsSquare(p, nx, ny)

qualifies_StrictDeviation(size, limited, dev, p, nx, ny) ==
    /\ isValidMove(size, p, nx, ny)
    /\ ~formsSquare(p, nx, ny)
    /\ (limited => Abs(nx - startXOf(size)) < dev)

qualifies(size, limited, dev, p, nx, ny) ==
    /\ isValidMove(size, p, nx, ny)
    /\ ~formsSquare(p, nx, ny)
    /\ (limited => Abs(nx - startXOf(size)) <= dev)

\* Index of the first candidate of dirs (from k on) that qualifies, 0 if none.
RECURSIVE firstQualifying(_, _, _, _, _, _)
firstQualifying(size, limited, dev, p, dirs, k) ==
    IF k > Len(dirs) THEN 0
    ELSE IF qualifies(size, limited, dev, p,
                      p[Len(p)][1] + dirs[k][1], p[Len(p)][2] + dirs[k][2])
         THEN k
         ELSE firstQualifying(size, limited, dev, p, dirs, k + 1)

\* One iteration of "while (y > 0)": the path after it, the branch taken
\* ("candidate", "fallback" or "stalled") and whether the loop breaks.
walkStep(size, limited, dev, p, js) ==
    LET x    == p[Len(p)][1]
        y    == p[Len(p)][2]
        dirs == shuffleArray(directions, js)
        k    == firstQualifying(size, limited, dev, p, dirs, 1)
    IN  IF k > 0
        THEN [path |-> Append(p, <<x + dirs[k][1], y + dirs[k][2]>>),
              branch |-> "candidate", stop |-> FALSE]
        ELSE IF limited /\ isValidMove(size, p, x, y - 1)
        THEN [path |-> Append(p, <<x, y - 1>>), branch |-> "fallback", stop |-> FALSE]
        ELSE [path |-> p, branch |-> "stalled", stop |-> TRUE]

\* newPath after "newPath.push([x, y])" with x = startX, y = GRID_SIZE - 1.
initialPath(size) == << <<startXOf(size), size - 1>> >>

\* Every path generatePath can return from the walk's current path p,
\* over all outcomes of the shuffles.
RECURSIVE walkFrom(_, _, _, _)
walkFrom(size, limited, dev, p) ==
    IF p[Len(p)][2] > 0
    THEN UNION { IF r.stop THEN {r.path} ELSE walkFrom(size, limited, dev, r.path)
                 : r \in { walkStep(size, limited, dev, p, js)
                           : js \in RandomPicks(Len(directions)) } }
    ELSE {p}

generatePath(size, limited, dev) == walkFrom(size, limited, dev, initialPath(size))

\* ================================================================== session
(***************************************************************************)
(* The component's state (useState), its refs (useRef) and the callbacks   *)
(* the host has been asked to run later.  A handler, the render it causes  *)
(* and the effects of that render are one step: the host runs them without *)
(* letting another handler in between (spec section 5).                    *)
(***************************************************************************)
VARIABLES
    variant,               \* which of the two components this is
    mounted,               \* the component has not been discarded
    gameState,             \* "idle" | "playing" | "won" | "lost"
    mistakes,
    timeLeft,
    path,
    playerPos,
    isErrorFlashing,
    lastValidPos,          \* recovery variant only
    isOnValidPath,         \* recovery variant only
    animationFrameRef,     \* animationFrameRef.current is not null
    rafScheduled,          \* a requestAnimationFrame(updateGame) callback is pending
    startTimeRef,
    errorFlashTimeoutRef,  \* errorFlashTimeoutRef.current is not null
    flashTimers,           \* pending flash-reset timeouts (setTimeout of flashErrorEffect)
    now,                   \* Date.now(), in clock quanta
    winTimers,             \* pending setTimeout(() => setGameState("won"), 50)
    checkTimers,           \* pending setTimeout(() => checkWinCondition(), 0) whose
                           \* closure captured a playerPos that is the last cell of
                           \* the path it captured (the others do nothing when they
                           \* fire and are not kept)
    soundsPlayed,          \* playErrorSound calls since the last startGame (history)
    startsInRow            \* startGame calls since the last other step, up to 2 (history)

\* -------------------------------------------------- the generator on its own
VARIABLES genSize, genLimited, genDev, newPath, genBranch, genDone

genVars == <<genSize, genLimited, genDev, newPath, genBranch, genDone>>

sessionVars ==
    <<variant, mounted, gameState, mistakes, timeLeft, path, playerPos,
      isErrorFlashing, lastValidPos, isOnValidPath, animationFrameRef,
      rafScheduled, startTimeRef, errorFlashTimeoutRef, flashTimers, now,
      winTimers, checkTimers, soundsPlayed, startsInRow>>

vars == <<sessionVars, genVars>>

\* The useState / useRef initial values, after the mount effects have run
\* (gameState is "idle": the loop effect and the win-check effect do nothing).
sessionInitial ==
    /\ mounted = TRUE
    /\ gameState = "idle"
    /\ mistakes = 0
    /\ timeLeft = TIME_LIMIT
    /\ path = <<>>
    /\ playerPos = <<0, 0>>
    /\ isErrorFlashing = FALSE
    /\ lastValidPos = <<0, 0>>
    /\ isOnValidPath = TRUE
    /\ animationFrameRef = FALSE
    /\ rafScheduled = FALSE
    /\ startTimeRef = 0
    /\ errorFlashTimeoutRef = FALSE
    /\ flashTimers = 0
    /\ now = 0
    /\ winTimers = 0
    /\ checkTimers = 0
    /\ soundsPlayed = 0
    /\ startsInRow = 0

\* A call generatePath() on a grid of side genSize: the state before the loop.
InitGen ==
    /\ genSize \in 2..MaxGenSize
    /\ genLimited \in BOOLEAN
    /\ genDev \in 0..MaxGenDev
    /\ (~genLimited => genDev = 0)
    /\ newPath = initialPath(genSize)
    /\ genBranch = "none"
    /\ genDone = FALSE
    /\ variant = IF genLimited THEN "recovery" ELSE "base"
    /\ sessionInitial

\* One iteration of the while loop, for one outcome of shuffleArray.
GenIterate ==
    /\ ~genDone
    /\ newPath[Len(newPath)][2] > 0
    /\ \E js \in RandomPicks(Len(directions)) :
         LET r == walkStep(genSize, genLimited, genDev, newPath, js)
         IN  /\ newPath' = r.path
             /\ genBranch' = r.branch
             /\ genDone' = r.stop
    /\ UNCHANGED <<genSize, genLimited, genDev, sessionVars>>

\* The loop condition y > 0 fails: return newPath.
GenReturn ==
    /\ ~genDone
    /\ newPath[Len(newPath)][2] <= 0
    /\ genDone' = TRUE
    /\ UNCHANGED <<genSize, genLimited, genDev, newPath, genBranch, sessionVars>>

NextGen == GenIterate \/ GenReturn

SpecGen == InitGen /\ [][NextGen]_vars

\* ------------------------------------------------------------ the session
Max(a, b) == IF a >= b THEN a ELSE b

isWithinBounds_NoUpperBound(x, y) == x >= 0 /\ y >= 0

isWithinBounds(x, y) == x >= 0 /\ x < GRID_SIZE /\ y >= 0 /\ y < GRID_SIZE

isOnPath_Anywhere(x, y) == TRUE

isOnPath(x, y) == hasPoint(path, x, y)

isLastValidPosition_SameRow(x, y) == y = lastValidPos[2]

isLastValidPosition_SameColumn(x, y) == x = lastValidPos[1]

isLastValidPosition(x, y) == x = lastValidPos[1] /\ y = lastValidPos[2]

\* The keys the listener is sent (e.key), and e.key.toLowerCase() on them.
Keys == {"ArrowLeft", "ArrowRight", "ArrowUp", "ArrowDown",
         "a", "d", "W", "S", "Enter"}

toLowerCase(key) ==
    CASE key = "ArrowLeft"  -> "arrowleft"
      [] key = "ArrowRight" -> "arrowright"
      [] key = "ArrowUp"    -> "arrowup"
      [] key = "ArrowDown"  -> "arrowdown"
      [] key = "W"          -> "w"
      [] key = "S"          -> "s"
      [] key = "Enter"      -> "enter"
      [] OTHER              -> key

keyDelta_DefaultMovesUp(key) ==
    LET k == toLowerCase(key)
    IN  CASE k \in {"arrowleft", "a"}  -> <<-1, 0>>
          [] k \in {"arrowright", "d"} -> <<1, 0>>
          [] k \in {"arrowdown", "s"}  -> <<0, 1>>
          [] OTHER                     -> <<0, -1>>

\* The switch of handleKeyDown: <<dx, dy>>, or <<0, 0>> for "default: return".
keyDelta(key) ==
    LET k == toLowerCase(key)
    IN  CASE k \in {"arrowleft", "a"}  -> <<-1, 0>>
          [] k \in {"arrowright", "d"} -> <<1, 0>>
          [] k \in {"arrowup", "w"}    -> <<0, -1>>
          [] k \in {"arrowdown", "s"}  -> <<0, 1>>
          [] OTHER                     -> <<0, 0>>

\* checkWinCondition, run in a closure that holds position pos and path p:
\* TRUE when it schedules the delayed setGameState("won").
checkWinCondition(pos, p) == Len(p) > 0 /\ pos = p[Len(p)]

\* The effect "Check win condition whenever player position changes", run
\* after a render in which playerPos was set, with that render's values:
\* the number of win commits it schedules.
winCheckEffect(v, gs, onValid, pos, p) ==
    IF gs = "playing" /\ (v = "recovery" => onValid) /\ checkWinCondition(pos, p)
    THEN 1 ELSE 0

resetGameState_KeepMistakes ==
    [mistakes |-> mistakes, timeLeft |-> TIME_LIMIT, gameState |-> "playing",
     isErrorFlashing |-> FALSE]

\* The paths "const newPath = generatePath()" can yield in each variant.
generatedPaths(v) ==
    IF v = "recovery" THEN generatePath(GRID_SIZE, TRUE, MAX_HORIZONTAL_DEVIATION)
    ELSE generatePath(GRID_SIZE, FALSE, 0)

basePaths == generatedPaths("base")

recoveryPaths == generatedPaths("recovery")

\* startGame's "Reset game state" block.
resetGameState ==
    [mistakes |-> 0, timeLeft |-> TIME_LIMIT, gameState |-> "playing",
     isErrorFlashing |-> FALSE]

\* startGame, from the Start Game / Play Again button, then the render and its
\* effects.  The buttons are rendered only outside "playing"; the start
\* action is modelled in every state, as the specification's restart case
\* calls it while playing.
startGame ==
    /\ mounted
    /\ \E generated \in (IF variant = "recovery" THEN recoveryPaths ELSE basePaths) :
         LET reset == resetGameState
         IN  /\ path' = generated
             /\ playerPos' = generated[1]
             /\ lastValidPos' = IF variant = "recovery" THEN generated[1] ELSE lastValidPos
             /\ isOnValidPath' = IF variant = "recovery" THEN TRUE ELSE isOnValidPath
             /\ mistakes' = reset.mistakes
             /\ timeLeft' = reset.timeLeft
             /\ gameState' = reset.gameState
             /\ isErrorFlashing' = reset.isErrorFlashing
             \* the win-check effect of the new render
             /\ winTimers' = winTimers +
                  winCheckEffect(variant, reset.gameState, TRUE, generated[1], generated)
    \* if (errorFlashTimeoutRef.current) clearTimeout(...), then null
    /\ flashTimers' = flashTimers - (IF errorFlashTimeoutRef THEN 1 ELSE 0)
    /\ errorFlashTimeoutRef' = FALSE
    /\ startTimeRef' = now
    \* cancelAnimationFrame, then the loop effect, which runs only when
    \* gameState has changed
    /\ IF gameState' # gameState /\ gameState' = "playing"
       THEN animationFrameRef' = TRUE /\ rafScheduled' = TRUE
       ELSE animationFrameRef' = FALSE /\ rafScheduled' = FALSE
    /\ soundsPlayed' = 0
    /\ startsInRow' = IF startsInRow < 2 THEN startsInRow + 1 ELSE 2
    /\ UNCHANGED <<variant, mounted, now, checkTimers, genVars>>

playErrorSound_Silent == UNCHANGED soundsPlayed

\* playErrorSound: errorSoundRef.current.play() is called once.
playErrorSound == soundsPlayed' = soundsPlayed + 1

flashErrorEffect_NoClear ==
    /\ flashTimers' = flashTimers + 1
    /\ isErrorFlashing' = TRUE
    /\ errorFlashTimeoutRef' = TRUE

\* flashErrorEffect: the timeout the ref holds is cleared, the flag is set
\* and a new timeout is scheduled and kept in the ref.
flashErrorEffect ==
    /\ flashTimers' = flashTimers - (IF errorFlashTimeoutRef THEN 1 ELSE 0) + 1
    /\ isErrorFlashing' = TRUE
    /\ errorFlashTimeoutRef' = TRUE

leavePlaying_LoopKept == UNCHANGED <<animationFrameRef, rafScheduled>>

\* The loop effect's cleanup and body after a render that changed gameState
\* from "playing" to something else: the pending frame is cancelled.
leavePlaying ==
    /\ animationFrameRef' = FALSE
    /\ rafScheduled' = FALSE

mistakeLimitReached_Never(newMistakes) == FALSE

mistakeLimitReached_OffByOne(newMistakes) == newMistakes > MISTAKES_ALLOWED

mistakeLimitReached(newMistakes) == newMistakes >= MISTAKES_ALLOWED

\* handleKeyDown(e) for e.key = key, then the render and its effects.
handleKeyEvent(key) ==
    /\ mounted
    /\   LET d    == keyDelta(key)
             newX == playerPos[1] + d[1]
             newY == playerPos[2] + d[2]
             ignored == \/ gameState # "playing"
                        \/ d = <<0, 0>>
                        \/ ~isWithinBounds(newX, newY)
                        \/ (variant = "recovery" /\ ~isOnValidPath
                              /\ ~isLastValidPosition(newX, newY))
         IN  IF ignored
             THEN UNCHANGED <<gameState, mistakes, playerPos, isErrorFlashing,
                              lastValidPos, isOnValidPath, animationFrameRef,
                              rafScheduled, errorFlashTimeoutRef, flashTimers,
                              winTimers, checkTimers, soundsPlayed>>
             ELSE IF variant = "recovery" /\ ~isOnValidPath
             THEN \* back to the last valid position
                  /\ playerPos' = <<newX, newY>>
                  /\ isOnValidPath' = TRUE
                  /\ winTimers' = winTimers +
                       winCheckEffect(variant, gameState, TRUE, <<newX, newY>>, path)
                  /\ winTimers' <= MaxWinTimers
                  /\ UNCHANGED <<gameState, mistakes, isErrorFlashing, lastValidPos,
                                 animationFrameRef, rafScheduled, flashTimers,
                                 errorFlashTimeoutRef, checkTimers, soundsPlayed>>
             ELSE IF isOnPath(newX, newY)
             THEN \* a move to a path cell
                  /\ playerPos' = <<newX, newY>>
                  /\ lastValidPos' =
                       IF variant = "recovery" THEN <<newX, newY>> ELSE lastValidPos
                  \* setTimeout(() => checkWinCondition(), 0): the closure holds
                  \* this render's playerPos and path
                  /\ checkTimers' = checkTimers +
                       (IF checkWinCondition(playerPos, path) THEN 1 ELSE 0)
                  /\ checkTimers' <= MaxCheckTimers
                  /\ winTimers' = winTimers +
                       winCheckEffect(variant, gameState, isOnValidPath,
                                      <<newX, newY>>, path)
                  /\ winTimers' <= MaxWinTimers
                  /\ UNCHANGED <<gameState, mistakes, isErrorFlashing, isOnValidPath,
                                 animationFrameRef, rafScheduled, flashTimers,
                                 errorFlashTimeoutRef, soundsPlayed>>
             ELSE \* a move to a cell that is not on the path: a mistake
                  /\ playerPos' = <<newX, newY>>
                  /\ isOnValidPath' =
                       IF variant = "recovery" THEN FALSE ELSE isOnValidPath
                  /\ mistakes' = mistakes + 1
                  /\ playErrorSound
                  /\ flashErrorEffect
                  /\ IF mistakeLimitReached(mistakes + 1)
                     THEN gameState' = "lost" /\ leavePlaying
                     ELSE UNCHANGED <<gameState, animationFrameRef, rafScheduled>>
                  \* the win-check effect finds a cell that is not on the path
                  /\ winTimers' = winTimers +
                       winCheckEffect(variant, gameState', isOnValidPath',
                                      <<newX, newY>>, path)
                  /\ UNCHANGED <<lastValidPos, checkTimers>>
    /\ startsInRow' = 0
    /\ UNCHANGED <<variant, mounted, timeLeft, path, startTimeRef, now, genVars>>

\* The keydown listener is called with some key.
handleKeyDown == \E key \in Keys : handleKeyEvent(key)

newTimeLeftAt_SinceEpoch(clock, start) == Max(0, TIME_LIMIT - clock)

\* Math.max(0, TIME_LIMIT - elapsed) with elapsed = Date.now() - startTimeRef.
newTimeLeftAt(clock, start) == Max(0, TIME_LIMIT - (clock - start))

timeIsUp_Strict(newTimeLeft) == newTimeLeft < 0

timeIsUp(newTimeLeft) == newTimeLeft <= 0

\* updateGame, the requestAnimationFrame callback, then the render and its
\* effects.
updateGame ==
    /\ rafScheduled
    /\ LET newTimeLeft == newTimeLeftAt(now, startTimeRef)
       IN  /\ timeLeft' = newTimeLeft
           /\ IF timeIsUp(newTimeLeft)
              THEN /\ gameState' = "lost"
                   /\ IF gameState = "playing"
                      THEN leavePlaying
                      ELSE animationFrameRef' = animationFrameRef /\ rafScheduled' = FALSE
              ELSE /\ animationFrameRef' = TRUE
                   /\ rafScheduled' = TRUE
                   /\ UNCHANGED gameState
    /\ startsInRow' = 0
    /\ UNCHANGED <<variant, mounted, mistakes, path, playerPos, isErrorFlashing,
                   lastValidPos, isOnValidPath, startTimeRef, errorFlashTimeoutRef,
                   flashTimers, now, winTimers, checkTimers, soundsPlayed, genVars>>

\* The zero-delay callback of handleKeyDown fires: checkWinCondition in the
\* closure of the render the key was handled in.
checkTimerFires ==
    /\ checkTimers > 0
    /\ checkTimers' = checkTimers - 1
    /\ winTimers' = winTimers + 1
    /\ winTimers' <= MaxWinTimers
    /\ startsInRow' = 0
    /\ UNCHANGED <<variant, mounted, gameState, mistakes, timeLeft, path, playerPos,
                   isErrorFlashing, lastValidPos, isOnValidPath, animationFrameRef,
                   rafScheduled, startTimeRef, errorFlashTimeoutRef, flashTimers,
                   now, soundsPlayed, genVars>>

\* The delayed callback of checkWinCondition fires: setGameState("won"),
\* then the render and its effects.
winTimerFires ==
    /\ winTimers > 0
    /\ winTimers' = winTimers - 1
    /\ IF mounted
       THEN /\ gameState' = "won"
            /\ IF gameState = "playing"
               THEN leavePlaying
               ELSE UNCHANGED <<animationFrameRef, rafScheduled>>
       ELSE UNCHANGED <<gameState, animationFrameRef, rafScheduled>>
    /\ startsInRow' = 0
    /\ UNCHANGED <<variant, mounted, mistakes, timeLeft, path, playerPos,
                   isErrorFlashing, lastValidPos, isOnValidPath, startTimeRef,
                   errorFlashTimeoutRef, flashTimers, now, checkTimers,
                   soundsPlayed, genVars>>

\* The timeout of flashErrorEffect fires.
flashTimerFires ==
    /\ flashTimers > 0
    /\ flashTimers' = flashTimers - 1
    /\ isErrorFlashing' = FALSE
    /\ errorFlashTimeoutRef' = FALSE
    /\ startsInRow' = 0
    /\ UNCHANGED <<variant, mounted, gameState, mistakes, timeLeft, path, playerPos,
                   lastValidPos, isOnValidPath, animationFrameRef, rafScheduled,
                   startTimeRef, now, winTimers, checkTimers, soundsPlayed, genVars>>

\* Date.now() moves on.
clockAdvances ==
    /\ now < MaxNow
    /\ now' = now + 1
    /\ startsInRow' = 0
    /\ UNCHANGED <<variant, mounted, gameState, mistakes, timeLeft, path, playerPos,
                   isErrorFlashing, lastValidPos, isOnValidPath, animationFrameRef,
                   rafScheduled, startTimeRef, errorFlashTimeoutRef, flashTimers,
                   winTimers, checkTimers, soundsPlayed, genVars>>

\* The component is discarded: the cleanups of the loop effect, of the
\* keydown effect and of the unmount effect run.
unmount ==
    /\ mounted
    /\ mounted' = FALSE
    /\ animationFrameRef' = FALSE
    /\ rafScheduled' = FALSE
    \* if (errorFlashTimeoutRef.current) clearTimeout(...): the ref is kept
    /\ flashTimers' = flashTimers - (IF errorFlashTimeoutRef THEN 1 ELSE 0)
    /\ startsInRow' = 0
    /\ UNCHANGED <<variant, gameState, mistakes, timeLeft, path, playerPos,
                   isErrorFlashing, lastValidPos, isOnValidPath, startTimeRef,
                   errorFlashTimeoutRef, now, winTimers, checkTimers, soundsPlayed,
                   genVars>>

Init ==
    /\ variant \in Variants
    /\ sessionInitial
    /\ genSize = GRID_SIZE
    /\ genLimited = (variant = "recovery")
    /\ genDev = IF variant = "recovery" THEN MAX_HORIZONTAL_DEVIATION ELSE 0
    /\ newPath = initialPath(GRID_SIZE)
    /\ genBranch = "none"
    /\ genDone = TRUE

Next ==
    \/ startGame
    \/ handleKeyDown
    \/ updateGame
    \/ checkTimerFires
    \/ winTimerFires
    \/ flashTimerFires
    \/ clockAdvances
    \/ unmount

Spec == Init /\ [][Next]_vars

\* Fairness of the generator: generatePath is sequential code, its loop keeps
\* running until it breaks or its condition fails.
SpecGenFair == InitGen /\ [][NextGen]_vars /\ WF_vars(NextGen)

\* =================================================================== claims

Adjacent(a, b) == Abs(a[1] - b[1]) + Abs(a[2] - b[2]) = 1

InPath(p, c) == \E i \in 1..Len(p) : p[i] = c

\* C1: generatePath (base and deviation-limited, every grid side >= 2, every
\* shuffle outcome) returns a non-empty path whose first cell is
\* (floor(size/2), size-1) and whose cells are pairwise distinct.
C1_StartAndDistinct ==
    genDone =>
        /\ Len(newPath) >= 1
        /\ newPath[1] = <<genSize \div 2, genSize - 1>>
        /\ \A i, j \in 1..Len(newPath) : i # j => newPath[i] # newPath[j]

\* A returned path that moved sideways as well as up.
C1_Witness == genDone /\ Len(newPath) > genSize + 1

\* C2: in every returned path consecutive cells are 4-adjacent and no 2x2
\* block of grid cells lies wholly in the path.
C2_AdjacentNoSquare ==
    genDone =>
        /\ \A i \in 1..(Len(newPath) - 1) : Adjacent(newPath[i], newPath[i + 1])
        /\ \A bx, by \in 0..(genSize - 2) :
             ~ (/\ InPath(newPath, <<bx, by>>)
                /\ InPath(newPath, <<bx + 1, by>>)
                /\ InPath(newPath, <<bx, by + 1>>)
                /\ InPath(newPath, <<bx + 1, by + 1>>))

\* A returned path of the deviation-limited generator with two sideways
\* moves on one row followed by a move up (three corners of a block).
C2_Witness ==
    /\ genDone
    /\ genLimited
    /\ \E i \in 1..(Len(newPath) - 3) :
         /\ newPath[i][2] = newPath[i + 1][2]
         /\ newPath[i + 1][2] = newPath[i + 2][2]
         /\ newPath[i + 3][2] = newPath[i + 2][2] - 1

\* C3: every returned path ends on the top row, its last cell being its only
\* cell of row 0; every iteration finds a qualifying candidate, so none takes
\* the fallback branch and none stalls (the walk never stops early).
C3_ReachesTopRow ==
    /\ genBranch \in {"none", "candidate"}
    /\ genDone =>
          /\ newPath[Len(newPath)][2] = 0
          /\ \A i \in 1..Len(newPath) : newPath[i][2] = 0 => i = Len(newPath)

\* A returned path of the deviation-limited generator that ran along the
\* edge of its band (where the sideways candidates are pruned).
C3_Witness ==
    /\ genDone
    /\ genLimited
    /\ genDev = 0
    /\ Len(newPath) = genSize

\* C4: a returned path never touches itself: two path cells that are
\* 4-adjacent are consecutive in the path.
C4_NoSelfTouch ==
    genDone =>
        \A i, j \in 1..Len(newPath) :
            (i < j /\ Adjacent(newPath[i], newPath[j])) => j = i + 1

\* A returned path that turns back over the row below it: it runs one way on
\* a row, goes up twice and runs the other way.
C4_Witness ==
    /\ genDone
    /\ \E i, j \in 1..(Len(newPath) - 1) :
         /\ i < j
         /\ newPath[i + 1][1] = newPath[i][1] - 1
         /\ newPath[j + 1][1] = newPath[j][1] + 1

\* C5: every cell of every path of the deviation-limited generator, at every
\* point of the walk, is within genDev columns of the start column.
C5_WithinDeviation ==
    genLimited =>
        \A i \in 1..Len(newPath) : Abs(newPath[i][1] - genSize \div 2) <= genDev

\* A returned path that reaches the edge of a band narrower than the grid.
C5_Witness ==
    /\ genDone
    /\ genLimited
    /\ genDev > 0
    /\ (genSize \div 2) - genDev > 0
    /\ \E i \in 1..Len(newPath) : Abs(newPath[i][1] - genSize \div 2) = genDev

\* C6: the walk terminates: the row of the current cell never increases, an
\* iteration that continues appends exactly one cell that was not in the
\* path, the path never holds more than size*size cells, and the call
\* returns.
C6_Terminates ==
    /\ [][ /\ newPath'[Len(newPath')][2] <= newPath[Len(newPath)][2]
           /\ Len(newPath') <= genSize * genSize
           /\ (newPath' # newPath \/ (~genDone' /\ newPath[Len(newPath)][2] > 0)) =>
                 /\ Len(newPath') = Len(newPath) + 1
                 /\ SubSeq(newPath', 1, Len(newPath)) = newPath
                 /\ ~InPath(newPath, newPath'[Len(newPath')]) ]_vars
    /\ <>genDone

\* The walk has returned a path longer than a straight climb.
C6_Witness == genDone /\ Len(newPath) >= 2 * genSize

\* C7: the session state changes only along idle->playing, won->playing and
\* lost->playing (each by a start action) and playing->won, playing->lost;
\* nothing returns to idle, and once won or lost only a start action changes
\* the state.
C7_StateMachine ==
    [][ gameState' # gameState =>
          \/ /\ gameState \in {"idle", "won", "lost"}
             /\ gameState' = "playing"
             /\ startsInRow' > 0
          \/ /\ gameState = "playing"
             /\ gameState' \in {"won", "lost"} ]_vars

\* C8: a start action that directly follows a start action leaves one
\* consistent playing session: no mistakes, full time, a generated path with
\* the player on its first cell, flash off, and no callback of an earlier
\* session still pending.
C8_RestartConsistent ==
    [][ startsInRow' = 2 =>
          /\ gameState' = "playing"
          /\ mistakes' = 0
          /\ timeLeft' = TIME_LIMIT
          /\ path' \in generatedPaths(variant)
          /\ playerPos' = path'[1]
          /\ ~isErrorFlashing'
          /\ ~errorFlashTimeoutRef'
          /\ flashTimers' = 0
          /\ (variant = "recovery" => lastValidPos' = path'[1] /\ isOnValidPath')
          /\ winTimers' = 0
          /\ checkTimers' = 0 ]_vars

\* C9: every start action, whatever the state before it, results in state
\* playing with a generated non-empty path, the player on path[0], no
\* mistakes, the full time, flash off and the start time set to the clock;
\* the recovery variant also has lastValidPos = path[0] and isOnValidPath.
\* (startsInRow > 0 holds exactly in the states a start action has just
\* produced: every other step sets it to 0.)
C9_StartResets ==
    startsInRow > 0 =>
        /\ gameState = "playing"
        /\ Len(path) >= 1
        /\ path[1] = <<GRID_SIZE \div 2, GRID_SIZE - 1>>
        /\ playerPos = path[1]
        /\ mistakes = 0
        /\ timeLeft = TIME_LIMIT
        /\ ~isErrorFlashing
        /\ startTimeRef = now
        /\ (variant = "recovery" => lastValidPos = path[1] /\ isOnValidPath)

\* A session started at a later clock value while the win commit of an
\* earlier session, in which the final cell was reached, is still pending.
C9_Witness ==
    /\ startsInRow = 1
    /\ gameState = "playing"
    /\ now > 0
    /\ winTimers > 0
    /\ mistakes = 0

\* C10: a tick in state playing sets the state to lost when the elapsed time
\* has reached TIME_LIMIT, whatever the mistakes and the position, and leaves
\* it playing otherwise.
C10_TickTimeout ==
    [][ (updateGame /\ gameState = "playing") =>
          IF now - startTimeRef >= TIME_LIMIT
          THEN gameState' = "lost"
          ELSE gameState' = "playing" ]_vars

\* The session was lost on time while the player stood on the path's final
\* cell with a win commit pending and mistakes to spare.
C10_Witness ==
    /\ gameState = "lost"
    /\ timeLeft = 0
    /\ mistakes > 0
    /\ mistakes < MISTAKES_ALLOWED
    /\ winTimers > 0
    /\ Len(path) > 0
    /\ playerPos = path[Len(path)]

\* C11: a key input charged as a mistake when mistakes = MISTAKES_ALLOWED - 1
\* sets the state to lost in that same step, and in every state where the
\* session is playing the mistake count is below MISTAKES_ALLOWED.
C11_LostAtLimit ==
    /\ [][ (mistakes = MISTAKES_ALLOWED - 1 /\ mistakes' = mistakes + 1) =>
             gameState' = "lost" ]_vars
    /\ [](gameState = "playing" => mistakes < MISTAKES_ALLOWED)

\* The session was lost on the last allowed mistake with time to spare.
C11_Witness ==
    /\ gameState = "lost"
    /\ mistakes = MISTAKES_ALLOWED
    /\ timeLeft > 0
    /\ isErrorFlashing

\* ---------------------------------------------------------------------
\* Sessions in which every key input retraces the path: the only inputs
\* are the start control, pressed while no session is playing, and the
\* directional key that steps from the player's path cell to the next.

\* A key whose candidate is the next cell of the path.
retraceKey ==
    /\ gameState = "playing"
    /\ \E key \in Keys : \E i \in 1..(Len(path) - 1) :
         /\ playerPos = path[i]
         /\ <<playerPos[1] + keyDelta(key)[1], playerPos[2] + keyDelta(key)[2]>>
              = path[i + 1]
         /\ handleKeyEvent(key)

\* The start control of the idle, won and lost overlays.
startFromOverlay == gameState # "playing" /\ startGame

NextRetrace ==
    \/ startFromOverlay
    \/ retraceKey
    \/ updateGame
    \/ winTimerFires
    \/ clockAdvances

SpecRetrace == Init /\ [][NextRetrace]_vars

\* C12: when the inputs of a started session are exactly the directional
\* keys that step along its path P, mistakes stay 0 and the session is won
\* only with the player on P's last cell, that is after |P| - 1 moves.
C12_RetraceWins ==
    /\ mistakes = 0
    /\ gameState = "won" => (Len(path) > 0 /\ playerPos = path[Len(path)])

\* ------------------------------------------------------------ key inputs
\* The key handler reads neither the clock nor timeLeft, so the claims about
\* one key input are checked over the sessions in which the clock does not
\* reach the next time unit: every event of Next but clockAdvances.
NextInput ==
    \/ startGame
    \/ handleKeyDown
    \/ updateGame
    \/ checkTimerFires
    \/ winTimerFires
    \/ flashTimerFires
    \/ unmount

SpecInput == Init /\ [][NextInput]_vars

\* The cell a key would move the player to, whether the key is one of the
\* eight directional keys, and whether a cell lies outside the grid.
candidate(key) ==
    <<playerPos[1] + keyDelta(key)[1], playerPos[2] + keyDelta(key)[2]>>

isDirectional(key) ==
    toLowerCase(key) \in {"arrowleft", "arrowright", "arrowup", "arrowdown",
                          "a", "d", "w", "s"}

outsideGrid(c) == c[1] < 0 \/ c[1] >= GRID_SIZE \/ c[2] < 0 \/ c[2] >= GRID_SIZE

\* The listener handles the key in this state.  Only the bounds on the
\* pending callbacks (MaxWinTimers, MaxCheckTimers) and the discarding of
\* the component take the step away.
handled(key) == ENABLED handleKeyEvent(key)

\* C13: in state playing a directional input whose candidate cell lies
\* outside the grid changes nothing in either variant: position, mistakes,
\* state, on-path flag, last valid position and flash stay, no sound plays.
C13_OutOfBoundsNoOp ==
    gameState = "playing" =>
      \A key \in Keys :
        (isDirectional(key) /\ outsideGrid(candidate(key)) /\ handled(key))
        => ENABLED (/\ handleKeyEvent(key)
                    /\ UNCHANGED <<playerPos, mistakes, gameState, isOnValidPath,
                                   lastValidPos, isErrorFlashing, soundsPlayed,
                                   flashTimers>>)

\* A playing session after an event, the player on the bottom row of the
\* start cell, where ArrowDown and S point outside the grid.
C13_Witness ==
    /\ mounted
    /\ gameState = "playing"
    /\ startsInRow = 0
    /\ playerPos = path[1]
    /\ outsideGrid(<<playerPos[1], playerPos[2] + 1>>)
    /\ mistakes = 0
    /\ timeLeft = TIME_LIMIT

\* C14: a key input while the session is idle, won or lost, and a
\* non-directional key in any state, leaves the whole session unchanged in
\* both variants: position, path, mistakes, state, on-path flag, last valid
\* position, flash, time left and every pending callback.
C14_IgnoredInput ==
    \A key \in Keys :
      (/\ gameState \in {"idle", "won", "lost"} \/ ~isDirectional(key)
       /\ handled(key))
      => ENABLED (/\ handleKeyEvent(key)
                  /\ UNCHANGED <<playerPos, path, mistakes, gameState,
                                 isOnValidPath, lastValidPos, isErrorFlashing,
                                 timeLeft, soundsPlayed, flashTimers, winTimers,
                                 checkTimers, rafScheduled>>)

\* A lost session after an event, with the player off the path next to
\* in-bounds cells: directional keys would move it if they were handled.
C14_Witness ==
    /\ mounted
    /\ gameState = "lost"
    /\ startsInRow = 0
    /\ mistakes = MISTAKES_ALLOWED
    /\ ~InPath(path, playerPos)
    /\ ~outsideGrid(<<playerPos[1], playerPos[2] - 1>>)
    /\ ~isErrorFlashing

\* C15 (as stated): in the recovery variant, while the player is off the
\* path, every in-bounds directional input whose candidate is not
\* lastValidPos changes nothing, and the input whose candidate is
\* lastValidPos moves the player there, sets isOnValidPath and charges no
\* mistake.
C15_OffPathAnyState ==
    (variant = "recovery" /\ ~isOnValidPath) =>
      \A key \in Keys :
        (isDirectional(key) /\ ~outsideGrid(candidate(key)) /\ handled(key))
        => ENABLED (/\ handleKeyEvent(key)
                    /\ IF candidate(key) = lastValidPos
                       THEN /\ playerPos' = lastValidPos
                            /\ isOnValidPath'
                            /\ mistakes' = mistakes
                       ELSE UNCHANGED <<playerPos, mistakes, gameState,
                                        isOnValidPath, lastValidPos,
                                        isErrorFlashing, soundsPlayed>>)

\* C15 (amended): the same while the session is playing; the input that
\* returns to lastValidPos also leaves lastValidPos, the flash and the
\* state alone and plays no sound.
C15_OffPathRecovery ==
    (variant = "recovery" /\ ~isOnValidPath /\ gameState = "playing") =>
      \A key \in Keys :
        (isDirectional(key) /\ ~outsideGrid(candidate(key)) /\ handled(key))
        => ENABLED (/\ handleKeyEvent(key)
                    /\ IF candidate(key) = lastValidPos
                       THEN /\ playerPos' = lastValidPos
                            /\ isOnValidPath'
                            /\ mistakes' = mistakes
                            /\ UNCHANGED <<gameState, lastValidPos,
                                           isErrorFlashing, soundsPlayed>>
                       ELSE UNCHANGED <<playerPos, mistakes, gameState,
                                        isOnValidPath, lastValidPos,
                                        isErrorFlashing, soundsPlayed>>)

\* The player is back on the path after a mistake: on a path cell that is
\* not the first, with one mistake charged and the session still playing.
C15_Witness ==
    /\ variant = "recovery"
    /\ gameState = "playing"
    /\ isOnValidPath
    /\ mistakes = 1
    /\ playerPos = lastValidPos
    /\ playerPos # path[1]
    /\ startsInRow = 0

\* C16: in state playing with the player on the path (recovery), or at any
\* position (base), an in-bounds directional input is applied: the position
\* becomes the candidate; for a path cell mistakes and flash stay and no
\* sound plays; for any other cell mistakes grow by exactly 1, the flash is
\* on, one sound plays and, in the recovery variant, isOnValidPath is false
\* while lastValidPos stays the cell just left.
C16_InputApplied ==
    (gameState = "playing" /\ (variant = "recovery" => isOnValidPath)) =>
      \A key \in Keys :
        (isDirectional(key) /\ ~outsideGrid(candidate(key)) /\ handled(key))
        => ENABLED (/\ handleKeyEvent(key)
                    /\ playerPos' = candidate(key)
                    /\ IF InPath(path, candidate(key))
                       THEN /\ mistakes' = mistakes
                            /\ isErrorFlashing' = isErrorFlashing
                            /\ soundsPlayed' = soundsPlayed
                            /\ gameState' = gameState
                       ELSE /\ mistakes' = mistakes + 1
                            /\ isErrorFlashing'
                            /\ soundsPlayed' = soundsPlayed + 1
                            /\ variant = "recovery" =>
                                 /\ ~isOnValidPath'
                                 /\ lastValidPos' = lastValidPos
                                 /\ lastValidPos' = playerPos)

\* Base variant: the player moved from a cell off the path to another cell
\* off the path and was charged for both moves.
C16_Witness ==
    /\ variant = "base"
    /\ gameState = "playing"
    /\ mistakes = 2
    /\ isErrorFlashing
    /\ ~InPath(path, playerPos)
    /\ \A i \in 1..Len(path) : ~Adjacent(path[i], playerPos)

\* C17: over every interleaving of inputs, ticks and timers the mistake
\* count stays within 0..MISTAKES_ALLOWED and changes only by +1, on a
\* mistake step of a playing session, or to 0, on a start action.
C17_MistakesMonotone ==
    /\ [][ \/ mistakes' = mistakes
           \/ /\ mistakes' = mistakes + 1
              /\ gameState = "playing"
              /\ soundsPlayed' = soundsPlayed + 1
              /\ isErrorFlashing'
              /\ ~InPath(path, playerPos')
           \/ /\ mistakes' = 0
              /\ startsInRow' > 0 ]_vars
    /\ [](mistakes \in 0..MISTAKES_ALLOWED)

\* A session that was won with two mistakes charged and a later clock.
C17_Witness ==
    /\ gameState = "won"
    /\ mistakes = MISTAKES_ALLOWED - 1
    /\ now > 0
    /\ timeLeft > 0

\* C18: whenever the session is idle, won or lost no tick callback is
\* scheduled, and once the component is discarded neither a tick callback
\* nor a flash-reset callback is scheduled.
C18_LoopTornDown ==
    /\ gameState \in {"idle", "won", "lost"} => ~rafScheduled
    /\ ~mounted => (~rafScheduled /\ flashTimers = 0)

\* The component was discarded right after the last mistake: the session is
\* lost, the flash flag is still set and its reset callback is gone.
C18_Witness ==
    /\ ~mounted
    /\ gameState = "lost"
    /\ mistakes = MISTAKES_ALLOWED
    /\ isErrorFlashing
    /\ errorFlashTimeoutRef
    /\ flashTimers = 0
    /\ ~rafScheduled

\* The sessions of SpecInput under the host's guarantee that a pending
\* timeout fires and a requested animation frame is delivered.
SpecInputFair ==
    /\ Init
    /\ [][NextInput]_vars
    /\ WF_vars(flashTimerFires)
    /\ WF_vars(winTimerFires)
    /\ WF_vars(checkTimerFires)
    /\ WF_vars(updateGame)

\* C19: at most one flash-reset timeout is pending at any time; a mistake
\* leaves exactly one pending with the flash on, a start action leaves none
\* with the flash off; while the component lives and the flash flag is on,
\* a reset is pending and held by the ref, so the flash is eventually
\* turned off.
C19_FlashReset ==
    /\ [](flashTimers \in {0, 1})
    /\ []((mounted /\ isErrorFlashing) => (flashTimers = 1 /\ errorFlashTimeoutRef))
    /\ [](startsInRow > 0 => (~isErrorFlashing /\ flashTimers = 0))
    /\ [][ mistakes' = mistakes + 1 => (flashTimers' = 1 /\ isErrorFlashing') ]_vars
    /\ (mounted /\ isErrorFlashing) ~> (~isErrorFlashing \/ ~mounted)

\* A second mistake was charged while the flash of the first was still on:
\* one reset is pending.
C19_Witness ==
    /\ mounted
    /\ gameState = "playing"
    /\ mistakes = 2
    /\ isErrorFlashing
    /\ flashTimers = 1
    /\ errorFlashTimeoutRef

\* C20: the error sound is played exactly once per mistake: in every state
\* the number of sounds played since the session's start equals its mistake
\* count.  A sound played by an on-path move, an out-of-bounds or rejected
\* off-path input, the return move, a tick or a timer would leave more
\* sounds than mistakes.
C20_SoundPerMistake == soundsPlayed = mistakes

\* Recovery variant: after a mistake, a rejected input and the return move
\* the player made a second mistake; two sounds have been played.
C20_Witness ==
    /\ variant = "recovery"
    /\ gameState = "playing"
    /\ ~isOnValidPath
    /\ mistakes = 2
    /\ soundsPlayed = 2

C22_WonOnFinalCell ==
    gameState = "won" =>
      /\ Len(path) > 0
      /\ playerPos = path[Len(path)]
      /\ variant = "recovery" => isOnValidPath

\* C23: right after a start action no win commit is pending (the new path's
\* first cell is never its final cell, so a pending commit was scheduled
\* before the start action), and so no commit of an earlier session can set
\* the new session to won.
C23_NoStaleWinCommit == startsInRow > 0 => winTimers = 0

\* C24: whenever the session of a living component is playing, a per-frame
\* tick is scheduled (so that the session is ticked until it is won or
\* lost), also in a session entered by a start action issued while playing.
C24_PlayingIsTicked == (mounted /\ gameState = "playing") => rafScheduled

\* C25: in the recovery variant, in every state after the first start
\* action: the path is not empty, lastValidPos is a cell of the path,
\* isOnValidPath holds exactly when the player stands on a cell of the path,
\* and when it does not hold the player is inside the grid on a cell next to
\* lastValidPos.
C25_RecoveryInvariant ==
    (variant = "recovery" /\ gameState # "idle") =>
      /\ Len(path) > 0
      /\ InPath(path, lastValidPos)
      /\ isOnValidPath <=> InPath(path, playerPos)
      /\ ~isOnValidPath =>
           /\ ~outsideGrid(playerPos)
           /\ Abs(playerPos[1] - lastValidPos[1])
                + Abs(playerPos[2] - lastValidPos[2]) = 1

\* The player stepped off the path from a cell reached by a sideways move
\* and stands off the path in the top row.
C25_Witness ==
    /\ variant = "recovery"
    /\ gameState = "playing"
    /\ ~isOnValidPath
    /\ lastValidPos[1] # path[1][1]
    /\ playerPos[2] = 0
    /\ mistakes = 1

====
